---- MODULE Spec2Model ----
(***************************************************************************)
(* A model of the x-pre-json custom element (src/xprejson.js): a tree of   *)
(* x-pre-json nodes, each owning a JSON value (input), its canonical text  *)
(* (textContent), its attributes and the rows rendered in its shadow root. *)
(*                                                                         *)
(* Texts are TLA+ strings handled character by character.  JSON.parse and  *)
(* JSON.stringify are modelled by what they do on the JSON subset made of  *)
(* null, true, false, integers, strings with the escapes \" and \\, arrays *)
(* and objects; texts of the model never hold fractions, exponents or      *)
(* other escapes.                                                          *)
(***************************************************************************)
EXTENDS Integers, Sequences, FiniteSets, TLC

(* A handler's intermediate results are passed on as operator arguments     *)
(* (the local constants of the JavaScript), one operator per step.          *)

\* nodes:   the x-pre-json elements by path (the keys from the root down)
\* drag:    the drag gesture in progress and the rows it was dragged over
\* events:  the nodes the last step dispatched an input event on
\* lastOp:  the handler the last step ran, with its node and key (history)
\* ops:     the number of user events handled since the mount
\* session: the edit session started last and the texts before it (history)
VARIABLES nodes, drag, events, lastOp, ops, session

vars == <<nodes, drag, events, lastOp, ops, session>>

----------------------------------------------------------------------------
(* JSON values                                                             *)

Undefined == [t |-> "undef"]
Null      == [t |-> "null"]
Bool(b)   == [t |-> "bool", b |-> b]
Num(n)    == [t |-> "num", n |-> n]
Str(s)    == [t |-> "str", s |-> s]
Arr(a)    == [t |-> "arr", a |-> a]
Obj(k, v) == [t |-> "obj", k |-> k, v |-> v]

EmptyObj == Obj(<<>>, <<>>)

\* isPrimitiveValue: typeof input !== "object" || input === null
isPrimitiveValue(input) == input.t \notin {"arr", "obj"}

----------------------------------------------------------------------------
(* Characters and numbers                                                  *)

Ch(s, i) == IF i >= 1 /\ i <= Len(s) THEN SubSeq(s, i, i) ELSE ""

DigitChars == {"0", "1", "2", "3", "4", "5", "6", "7", "8", "9"}

DigitVal(c) ==
    CASE c = "0" -> 0 [] c = "1" -> 1 [] c = "2" -> 2 [] c = "3" -> 3
      [] c = "4" -> 4 [] c = "5" -> 5 [] c = "6" -> 6 [] c = "7" -> 7
      [] c = "8" -> 8 [] c = "9" -> 9

LetterChars ==
    {"a", "b", "c", "d", "e", "f", "g", "h", "i", "j", "k", "l", "m",
     "n", "o", "p", "q", "r", "s", "t", "u", "v", "w", "x", "y", "z"}

IsWS(c) == c \in {" ", "\t", "\n", "\r"}

RECURSIVE SkipWS(_, _)
SkipWS(s, i) == IF IsWS(Ch(s, i)) THEN SkipWS(s, i + 1) ELSE i

RECURSIVE DigitsEnd(_, _)
\* the index after the run of digits that starts at i
DigitsEnd(s, i) == IF Ch(s, i) \in DigitChars THEN DigitsEnd(s, i + 1) ELSE i

RECURSIVE DigitsVal(_, _, _, _)
DigitsVal(s, i, j, acc) ==
    IF i >= j THEN acc ELSE DigitsVal(s, i + 1, j, acc * 10 + DigitVal(Ch(s, i)))

\* String.prototype.trim
RECURSIVE TrimRight(_)
TrimRight(s) ==
    IF Len(s) > 0 /\ IsWS(Ch(s, Len(s))) THEN TrimRight(SubSeq(s, 1, Len(s) - 1)) ELSE s

Trim(s) == TrimRight(SubSeq(s, SkipWS(s, 1), Len(s)))

\* a canonical array index: "0", or digits without a leading zero
IsIndexKey(k) ==
    /\ Len(k) > 0
    /\ DigitsEnd(k, 1) = Len(k) + 1
    /\ (Ch(k, 1) = "0" => Len(k) = 1)

IndexVal(k) == DigitsVal(k, 1, Len(k) + 1, 0)

----------------------------------------------------------------------------
(* Property access on objects and arrays                                   *)

\* position of key k in the key sequence ks, 0 when absent
RECURSIVE KeyPos(_, _, _)
KeyPos(ks, k, i) ==
    IF i > Len(ks) THEN 0 ELSE IF ks[i] = k THEN i ELSE KeyPos(ks, k, i + 1)

InsertAt(seq, i, x) == SubSeq(seq, 1, i - 1) \o <<x>> \o SubSeq(seq, i, Len(seq))

\* where a new property k goes in the own-property order of an object:
\* integer keys in ascending order first, then the others as created
RECURSIVE NewKeyPos(_, _, _)
NewKeyPos(ks, k, i) ==
    IF i > Len(ks) THEN i
    ELSE IF ~IsIndexKey(k) THEN Len(ks) + 1
    ELSE IF ~IsIndexKey(ks[i]) \/ IndexVal(ks[i]) > IndexVal(k) THEN i
    ELSE NewKeyPos(ks, k, i + 1)

ObjInsert(o, k, v, q) == Obj(InsertAt(o.k, q, k), InsertAt(o.v, q, v))

\* o[k] = v on an object whose key k is at position p (0: a new property)
ObjPut(o, k, v, p) ==
    IF p > 0 THEN Obj(o.k, [o.v EXCEPT ![p] = v])
    ELSE ObjInsert(o, k, v, NewKeyPos(o.k, k, 1))

\* a[n] = v on an array, n the number the key stands for
ArrPut(o, n, v) ==
    IF n < Len(o.a) THEN Arr([o.a EXCEPT ![n + 1] = v])
    ELSE IF n = Len(o.a) THEN Arr(Append(o.a, v))
    ELSE o

\* o[k] = v on an object or an array (a property of an array that is no
\* index is not part of its JSON value)
SetProp(o, k, v) ==
    IF o.t = "obj" THEN ObjPut(o, k, v, KeyPos(o.k, k, 1))
    ELSE IF o.t = "arr" /\ IsIndexKey(k) THEN ArrPut(o, IndexVal(k), v)
    ELSE o

HasProp(o, k) ==
    \/ o.t = "obj" /\ KeyPos(o.k, k, 1) > 0
    \/ o.t = "arr" /\ IsIndexKey(k) /\ IndexVal(k) < Len(o.a)

GetProp(o, k) ==
    IF ~HasProp(o, k) THEN Undefined
    ELSE IF o.t = "obj" THEN o.v[KeyPos(o.k, k, 1)]
    ELSE o.a[IndexVal(k) + 1]

\* Object.entries: the sequence of <<key, value>> pairs in property order
Entries(o) ==
    IF o.t = "obj" THEN [i \in 1..Len(o.k) |-> <<o.k[i], o.v[i]>>]
    ELSE IF o.t = "arr" THEN [i \in 1..Len(o.a) |-> <<ToString(i - 1), o.a[i]>>]
    ELSE <<>>

----------------------------------------------------------------------------
(* JSON.stringify                                                          *)

RECURSIVE EscapeStr(_)
EscapeChar(c) == IF c = "\"" THEN "\\\"" ELSE IF c = "\\" THEN "\\\\" ELSE c

EscapeStr(s) ==
    IF Len(s) = 0 THEN "" ELSE EscapeChar(Ch(s, 1)) \o EscapeStr(SubSeq(s, 2, Len(s)))

Quote(s) == "\"" \o EscapeStr(s) \o "\""

RECURSIVE Stringify(_)
RECURSIVE StringifyFrom(_, _)

\* the i-th item of an array, or the i-th member of an object
StringifyItem(v, i) ==
    IF v.t = "arr"
    THEN (IF v.a[i].t = "undef" THEN "null" ELSE Stringify(v.a[i]))
    ELSE Quote(v.k[i]) \o ":" \o Stringify(v.v[i])

\* the comma-separated items i..n of an array or object of n items
StringifyFrom(v, i) ==
    IF i > (IF v.t = "arr" THEN Len(v.a) ELSE Len(v.k)) THEN ""
    ELSE StringifyItem(v, i)
             \o (IF i = (IF v.t = "arr" THEN Len(v.a) ELSE Len(v.k)) THEN "" ELSE ",")
             \o StringifyFrom(v, i + 1)

\* String(value) in the place of JSON.stringify(value) for an object
StringOfObject(v) ==
    CASE v.t = "null" -> "null"
      [] v.t = "bool" -> (IF v.b THEN "true" ELSE "false")
      [] v.t = "num"  -> ToString(v.n)
      [] v.t = "str"  -> Quote(v.s)
      [] v.t = "arr"  -> "[" \o StringifyFrom(v, 1) \o "]"
      [] v.t = "obj"  -> "[object Object]"
      [] v.t = "undef" -> ""

Stringify(v) ==
    CASE v.t = "null" -> "null"
      [] v.t = "bool" -> (IF v.b THEN "true" ELSE "false")
      [] v.t = "num"  -> ToString(v.n)
      [] v.t = "str"  -> Quote(v.s)
      [] v.t = "arr"  -> "[" \o StringifyFrom(v, 1) \o "]"
      [] v.t = "obj"  -> "{" \o StringifyFrom(v, 1) \o "}"
      [] v.t = "undef" -> ""

----------------------------------------------------------------------------
(* JSON.parse                                                              *)

Fail == [ok |-> FALSE, v |-> Undefined, i |-> 0]
Okay(v, i) == [ok |-> TRUE, v |-> v, i |-> i]

Sub(s, i, j) == IF j <= Len(s) THEN SubSeq(s, i, j) ELSE ""

RECURSIVE ParseStrBody(_, _, _)
\* the characters of a string literal whose opening quote is before index i
ParseStrBody(s, i, acc) ==
    IF Ch(s, i) \in {"", "\t", "\n", "\r"} THEN Fail
    ELSE IF Ch(s, i) = "\"" THEN Okay(acc, i + 1)
    ELSE IF Ch(s, i) = "\\" THEN
        (IF Ch(s, i + 1) \in {"\"", "\\"}
         THEN ParseStrBody(s, i + 2, acc \o Ch(s, i + 1))
         ELSE Fail)
    ELSE ParseStrBody(s, i + 1, acc \o Ch(s, i))

\* the digits d..e-1 of a number, after its sign
NumberEnd(s, d, e, neg) ==
    IF e = d THEN Fail
    ELSE IF Ch(s, d) = "0" /\ e > d + 1 THEN Fail
    ELSE IF Ch(s, e) \in {".", "e", "E"} THEN Fail
    ELSE Okay(Num(IF neg THEN 0 - DigitsVal(s, d, e, 0) ELSE DigitsVal(s, d, e, 0)), e)

NumberAt(s, d, neg) == NumberEnd(s, d, DigitsEnd(s, d), neg)

ParseNumber(s, i) == NumberAt(s, IF Ch(s, i) = "-" THEN i + 1 ELSE i, Ch(s, i) = "-")

ParseString(r) == IF r.ok THEN Okay(Str(r.v), r.i) ELSE Fail

RECURSIVE ParseValue(_, _)
RECURSIVE ParseElems(_, _, _)
RECURSIVE ParseMembers(_, _, _)

\* after an element: "," and the next element, or "]"
ElemsSep(s, acc, j) ==
    IF Ch(s, j) = "," THEN ParseElems(s, j + 1, acc)
    ELSE IF Ch(s, j) = "]" THEN Okay(Arr(acc), j + 1)
    ELSE Fail

ElemsNext(s, acc, r) ==
    IF ~r.ok THEN Fail ELSE ElemsSep(s, Append(acc, r.v), SkipWS(s, r.i))

ParseElems(s, i, acc) == ElemsNext(s, acc, ParseValue(s, i))

\* after a member: "," and the next member, or "}"
MemberSep(s, obj, j) ==
    IF Ch(s, j) = "," THEN ParseMembers(s, j + 1, obj)
    ELSE IF Ch(s, j) = "}" THEN Okay(obj, j + 1)
    ELSE Fail

MemberNext(s, obj, key, r) ==
    IF ~r.ok THEN Fail ELSE MemberSep(s, SetProp(obj, key, r.v), SkipWS(s, r.i))

MemberVal(s, obj, key, c) ==
    IF Ch(s, c) # ":" THEN Fail ELSE MemberNext(s, obj, key, ParseValue(s, c + 1))

MemberColon(s, obj, k) ==
    IF ~k.ok THEN Fail ELSE MemberVal(s, obj, k.v, SkipWS(s, k.i))

MemberKey(s, obj, q) ==
    IF Ch(s, q) # "\"" THEN Fail ELSE MemberColon(s, obj, ParseStrBody(s, q + 1, ""))

ParseMembers(s, i, obj) == MemberKey(s, obj, SkipWS(s, i))

\* after "[" or "{": j is the index of the next character that is no blank
ParseArray(s, j) ==
    IF Ch(s, j) = "]" THEN Okay(Arr(<<>>), j + 1) ELSE ParseElems(s, j, <<>>)

ParseObject(s, j) ==
    IF Ch(s, j) = "}" THEN Okay(EmptyObj, j + 1) ELSE ParseMembers(s, j, EmptyObj)

\* the value that starts with the character c at index i
ParseAt(s, i, c) ==
    CASE c = "n" -> (IF Sub(s, i, i + 3) = "null" THEN Okay(Null, i + 4) ELSE Fail)
      [] c = "t" -> (IF Sub(s, i, i + 3) = "true" THEN Okay(Bool(TRUE), i + 4) ELSE Fail)
      [] c = "f" -> (IF Sub(s, i, i + 4) = "false" THEN Okay(Bool(FALSE), i + 5) ELSE Fail)
      [] c = "\"" -> ParseString(ParseStrBody(s, i + 1, ""))
      [] c = "[" -> ParseArray(s, SkipWS(s, i + 1))
      [] c = "{" -> ParseObject(s, SkipWS(s, i + 1))
      [] c = "-" \/ c \in DigitChars -> ParseNumber(s, i)
      [] OTHER -> Fail

ParseFrom(s, i) == ParseAt(s, i, Ch(s, i))

ParseValue(s, i0) == ParseFrom(s, SkipWS(s, i0))

ParseEnd(s, r) == IF r.ok /\ SkipWS(s, r.i) = Len(s) + 1 THEN r ELSE Fail

\* JSON.parse(s): ok is FALSE where JSON.parse throws
JSONParse(s) == ParseEnd(s, ParseValue(s, 1))

OrText(text, r) == IF r.ok THEN r.v ELSE Str(text)

\* try { JSON.parse(text) } catch { text }
ParseOrText(text) == OrText(text, JSONParse(text))

----------------------------------------------------------------------------
(* Attributes and configuration                                            *)

\* an optional string: an attribute (getAttribute gives null when absent), or
\* a reference to a row by its key (null when unset)
None    == [has |-> FALSE, val |-> ""]
Some(s) == [has |-> TRUE, val |-> s]

\* a truthy string: neither null nor ""
Truthy(a) == a.has /\ a.val # ""

IntEnd(s, d, e, neg) ==
    [nan |-> e = d,
     n   |-> IF neg THEN 0 - DigitsVal(s, d, e, 0) ELSE DigitsVal(s, d, e, 0)]

IntDigits(s, d, neg) == IntEnd(s, d, DigitsEnd(s, d), neg)

IntSign(s, i) == IntDigits(s, IF Ch(s, i) \in {"-", "+"} THEN i + 1 ELSE i, Ch(s, i) = "-")

\* Number.parseInt on the model's texts: optional blanks and sign, then a run
\* of digits; nan when there is no digit
ParseIntJS(s) == IntSign(s, SkipWS(s, 1))

DEFAULT_TRUNCATE_STRING == 500

\* a coercion that lets a negative value through
NonNegativeKeep(v) == IF v.nan THEN 0 ELSE v.n

\* isNaN(value) || value < 0 ? 0 : value
NonNegative(v) == IF v.nan \/ v.n < 0 THEN 0 ELSE v.n

expandAttributeValue(n) ==
    IF ~n.expand.has THEN 1 ELSE NonNegative(ParseIntJS(n.expand.val))

truncateStringAttributeValue(n) ==
    IF ~n.truncate.has THEN DEFAULT_TRUNCATE_STRING
    ELSE NonNegative(ParseIntJS(n.truncate.val))

----------------------------------------------------------------------------
(* String(value) and new URL(value)                                        *)

RECURSIVE ToStringJS(_)
RECURSIVE JoinFrom(_, _)

JoinItem(v) == IF v.t \in {"null", "undef"} THEN "" ELSE ToStringJS(v)

\* Array.prototype.join(","): null and undefined items give ""
JoinFrom(a, i) ==
    IF i > Len(a) THEN ""
    ELSE JoinItem(a[i]) \o (IF i = Len(a) THEN "" ELSE ",") \o JoinFrom(a, i + 1)

ToStringJS(v) ==
    CASE v.t = "str"   -> v.s
      [] v.t = "arr"   -> JoinFrom(v.a, 1)
      [] v.t = "obj"   -> "[object Object]"
      [] v.t = "undef" -> "undefined"
      [] OTHER         -> Stringify(v)

RECURSIVE SchemeEnd(_, _)
\* the index of the ":" that ends a scheme starting at i, 0 when there is none
SchemeEnd(s, i) ==
    IF Ch(s, i) = ":" THEN i
    ELSE IF Ch(s, i) \in LetterChars \cup DigitChars \cup {"+", "-", "."}
    THEN SchemeEnd(s, i + 1)
    ELSE 0

StartsWithScheme(u) == Ch(u, 1) \in LetterChars /\ SchemeEnd(u, 2) > 0

\* new URL(s) without a base succeeds: s, trimmed, starts with a scheme (a
\* letter, then letters, digits, "+", "-", "."), then ":".  The model's texts
\* use no special scheme (http, file, ...), whose URLs also need a host.
IsAbsoluteURL(s) == StartsWithScheme(Trim(s))

\* isValidStringURL(): it reads this.input, the value of the whole node
isValidStringURL(n) == IsAbsoluteURL(ToStringJS(n.input))

----------------------------------------------------------------------------
(* Nodes and their rendered rows                                           *)

NoPrim == [type |-> "none", key |-> "", text |-> "", anchor |-> FALSE,
           ellipsis |-> FALSE, full |-> "", handler |-> FALSE,
           editing |-> FALSE, sessions |-> <<>>, dirty |-> FALSE,
           revealed |-> FALSE]

TypeOf(input) ==
    CASE input.t = "str"   -> "string"
      [] input.t = "num"   -> "number"
      [] input.t = "bool"  -> "boolean"
      [] input.t = "undef" -> "undefined"
      [] OTHER             -> "null"

\* a truncation that cuts nothing
createTruncatedStringElementWhole(s, limit) == s

\* createTruncatedStringElement: the first limit characters and the control
createTruncatedStringElement(s, limit) == SubSeq(s, 1, limit)

\* the element of a value of the given type; url and limit are what
\* isValidStringURL() and truncateStringAttributeValue return
PrimitiveElement(type, input, key, editable, url, limit) ==
    [type     |-> type,
     key      |-> key,
     text     |-> IF type # "string" THEN Stringify(input)
                  ELSE IF url THEN "\"" \o input.s \o "\""
                  ELSE IF Len(input.s) > limit
                  THEN createTruncatedStringElement(input.s, limit)
                  ELSE input.s,
     anchor   |-> type = "string" /\ url,
     ellipsis |-> type = "string" /\ ~url /\ Len(input.s) > limit,
     full     |-> IF type = "string" THEN input.s ELSE "",
     handler  |-> editable,
     editing  |-> FALSE,
     sessions |-> <<>>,
     dirty    |-> FALSE,
     revealed |-> FALSE]

\* createPrimitiveValueElement(input, key) of node n.  text is the element's
\* textContent; full is the string the ellipsis handler keeps; sessions holds
\* the originalText of every set of edit listeners attached to the element.
createPrimitiveValueElement(n, input, key) ==
    PrimitiveElement(TypeOf(input), input, key, n.editable,
                     isValidStringURL(n), truncateStringAttributeValue(n))

IsEmptyArray(v) == v.t = "arr" /\ Len(v.a) = 0

\* the entries of an expanded object or array that get an inline row
IsInline(v) == isPrimitiveValue(v) \/ IsEmptyArray(v)

\* an inline row of the container of n: label, value element or [] marker
RowOf(n, key, value) ==
    [kind      |-> "row",
     key       |-> key,
     label     |-> n.input.t = "obj",
     marker    |-> IsEmptyArray(value),
     draggable |-> ~IsEmptyArray(value) /\ n.input.t = "arr" /\ n.editable,
     dragged   |-> FALSE,
     comma     |-> FALSE,
     prim      |-> IF IsEmptyArray(value) THEN NoPrim
                   ELSE createPrimitiveValueElement(n, value, key)]

NestedOf(key, comma) ==
    [kind |-> "node", key |-> key, label |-> FALSE, marker |-> FALSE,
     draggable |-> FALSE, dragged |-> FALSE, comma |-> comma, prim |-> NoPrim]

\* one child of the container: an inline row, or a nested x-pre-json element
ChildOf(n, key, value, comma) ==
    IF IsInline(value) THEN RowOf(n, key, value) ELSE NestedOf(key, comma)

NoBox == [kind |-> "none", header |-> FALSE, count |-> FALSE, ellipsis |-> FALSE,
          rows |-> <<>>, selected |-> None]

\* a container that builds the entries whether expanded or not
ChildEntriesAll(n) ==
    IF isPrimitiveValue(n.input) THEN << <<"", n.input>> >> ELSE Entries(n.input)

\* what the container shows: the primitive itself, nothing when collapsed,
\* or the entries of the object or array
ChildEntries(n) ==
    IF isPrimitiveValue(n.input) THEN << <<"", n.input>> >>
    ELSE IF ~n.isExpanded THEN <<>>
    ELSE Entries(n.input)

Container(n, es) ==
    [kind     |-> IF isPrimitiveValue(n.input) THEN "prim" ELSE "box",
     header   |-> ~isPrimitiveValue(n.input) /\ Truthy(n.key),
     count    |-> /\ ~isPrimitiveValue(n.input) /\ Truthy(n.key)
                  /\ n.input.t = "arr" /\ n.arrSize,
     ellipsis |-> ~isPrimitiveValue(n.input) /\ ~n.isExpanded,
     rows     |-> [i \in 1..Len(es) |-> ChildOf(n, es[i][1], es[i][2], i < Len(es))],
     selected |-> None]

\* createChild / createObjectOrArray: what render() puts in the shadow root
createChild(n) == Container(n, ChildEntries(n))

\* a render that does nothing before the value is set
renderInitialized(n) == IF n.input = Undefined THEN n ELSE [n EXCEPT !.box = createChild(n)]

\* render() of an element that holds no nested element
render(n) == [n EXCEPT !.box = createChild(n)]

----------------------------------------------------------------------------
(* Element construction, attributes, mount and render                      *)

\* the fields of a new x-pre-json element (class field initialisers)
Construct ==
    [input |-> Undefined, aliased |-> FALSE, textContent |-> "",
     expand |-> None, key |-> None, editableAttr |-> None, arraySize |-> None,
     truncate |-> None, modified |-> None,
     isExpanded |-> TRUE, arrSize |-> FALSE, editable |-> FALSE,
     box |-> NoBox]

\* !isNaN(expandValue) && expandValue > 0
IsPositive(v) == ~v.nan /\ v.n > 0

\* the fields attributeChangedCallback sets before it renders
AttributeFields(n, name) ==
    CASE name = "editable"   -> [n EXCEPT !.editable = n.editableAttr.has]
      [] name = "array-size" -> [n EXCEPT !.arrSize = n.arraySize.has]
      [] name = "expand"     ->
            [n EXCEPT !.isExpanded =
                IF ~n.expand.has THEN FALSE ELSE IsPositive(ParseIntJS(n.expand.val))]
      [] OTHER -> n

\* attributeChangedCallback for every attribute but "modified", on an element
\* that holds no nested element (its render() replaces the shadow content)
attributeChangedCallback(n, name) ==
    IF name \in {"editable", "array-size", "truncate-string", "expand"}
    THEN render(AttributeFields(n, name))
    ELSE n

\* setAttribute(name, value)
setAttribute(n, name, value) ==
    attributeChangedCallback(
        CASE name = "expand"          -> [n EXCEPT !.expand = Some(value)]
          [] name = "truncate-string" -> [n EXCEPT !.truncate = Some(value)]
          [] name = "key"             -> [n EXCEPT !.key = Some(value)]
          [] name = "editable"        -> [n EXCEPT !.editableAttr = Some(value)]
          [] name = "array-size"      -> [n EXCEPT !.arraySize = Some(value)],
        name)

\* setAttribute for each (name, value) of attrs from the i-th on
RECURSIVE setAttributes(_, _, _)
setAttributes(n, attrs, i) ==
    IF i > Len(attrs) THEN n
    ELSE setAttributes(setAttribute(n, attrs[i][1], attrs[i][2]), attrs, i + 1)

\* a nested element given its parent's own depth
nestedExpandSame(n) == expandAttributeValue(n)

\* the depth a nested element is given: expand - 1
nestedExpand(n) == expandAttributeValue(n) - 1

\* the nested element createObjectOrArray makes for the entry (key, value)
createNested(n, key, value) ==
    setAttributes([Construct EXCEPT !.textContent = Stringify(value)],
                  << <<"expand", ToString(nestedExpand(n))>>,
                     <<"truncate-string", ToString(truncateStringAttributeValue(n))>>,
                     <<"key", key>>,
                     <<"editable", IF n.editable THEN "" ELSE "false">>,
                     <<"array-size", IF n.arrSize THEN "" ELSE "false">> >>,
                  1)

\* a mount that swallows the parse error and shows the raw text
ConnectedAnyway(n, r) ==
    [thrown |-> FALSE,
     n |-> [n EXCEPT !.input = IF r.ok THEN r.v ELSE Str(n.textContent),
                     !.aliased = FALSE, !.editable = n.editableAttr.has]]

Connected(n, r) ==
    IF ~r.ok THEN [thrown |-> TRUE, n |-> n]
    ELSE [thrown |-> FALSE,
          n |-> [n EXCEPT !.input = r.v, !.aliased = FALSE,
                          !.editable = n.editableAttr.has]]

\* connectedCallback up to its call of render(); thrown is TRUE where it
\* throws xPreJSONError
connectedCallback(n) == Connected(n, JSONParse(n.textContent))

NoNodes == [p \in {} |-> Construct]

RECURSIVE RenderTree(_, _)
RECURSIVE RenderKids(_, _, _)

\* the nested element of n's container for the entry with this key, connected
NestedElement(n, key) ==
    connectedCallback(createNested(n, key, GetProp(n.input, key))).n

\* the nested elements of n's container from child i on, each connected (its
\* connectedCallback parses its text and renders it in turn)
RenderKids(n, path, i) ==
    IF i > Len(n.box.rows) THEN NoNodes
    ELSE (IF n.box.rows[i].kind = "node"
          THEN RenderTree(NestedElement(n, n.box.rows[i].key),
                          Append(path, n.box.rows[i].key))
          ELSE NoNodes)
         @@ RenderKids(n, path, i + 1)

\* the rendered node m at path with the nested nodes its content instantiates
Instantiate(m, path) == (path :> m) @@ RenderKids(m, path, 1)

\* render() of the node n at path: n with its new shadow content, and the
\* nested nodes that content instantiates, by path
RenderTree(n, path) == Instantiate(render(n), path)

IsPrefix(p, q) == Len(p) <= Len(q) /\ SubSeq(q, 1, Len(p)) = p

\* ns with the subtree at path replaced by tree
ReplaceTree(ns, path, tree) ==
    tree @@ [q \in {q \in DOMAIN ns : ~IsPrefix(path, q)} |-> ns[q]]

Root == <<>>

Parent(p) == SubSeq(p, 1, Len(p) - 1)

----------------------------------------------------------------------------
(* Bounds and scenarios                                                    *)

\* edit listener sets attached at one time, over all elements
MaxSessions == 2
\* user events of one run, after the mount
MaxSteps == 4

\* the texts a live input may leave in an element
InputTexts == {"7", "ab", "[]"}

Doc(text, expand, editable, truncate) ==
    [text |-> text, expand |-> expand, editable |-> editable, truncate |-> truncate,
     arraySize |-> None]

\* the document d with the array-size attribute set
WithArraySize(d) == [d EXCEPT !.arraySize = Some("")]

\* the documents the host page mounts: payload text and attributes
Scenarios ==
    { Doc("{\"x\":5}", None, Some(""), None),
      Doc("[1,2,3]", None, Some(""), None),
      Doc("{\"a\":{\"b\":1}}", None, None, None),
      Doc("{\"a\":{\"b\":1}}", Some("2"), None, None),
      Doc("{\"a\":{\"b\":{\"c\":1}}}", Some("3"), Some(""), None),
      Doc("{\"a\":[],\"b\":[[],1]}", Some("2"), Some(""), None),
      Doc("{\"s\":\"abcd\",\"t\":\"ab\"}", None, Some(""), Some("2")),
      Doc("{\"c\":{\"\":5,\"x\":1}}", Some("2"), Some(""), None),
      Doc("{\"a\":[1,2]}", Some("2"), Some(""), None),
      Doc("[\"1\",2]", None, Some(""), None),
      Doc("[\"u:abcd\"]", Some("0"), Some(""), Some("2")),
      Doc("5", None, Some(""), None),
      Doc("{\"u\":\"u:ab\"}", None, None, None),
      Doc("[[1],2]", None, Some(""), None),
      WithArraySize(Doc("{\"a\":[1,2]}", Some("2"), None, None)),
      Doc("{ \"a\" : {\"b\":\"\\\"\\\\\",\"2\":0} }", Some("2"), None, None),
      Doc("{\"\":[1,2]}", Some("2"), Some(""), None),
      Doc("{\"a\":[1,2],\"b\":[3,4]}", Some("2"), Some(""), None),
      Doc("7x", None, None, None) }

\* the attributes of a document, in the order the parser sets them
AttributesOf(d) ==
    (IF d.expand.has THEN << <<"expand", d.expand.val>> >> ELSE <<>>)
    \o (IF d.truncate.has THEN << <<"truncate-string", d.truncate.val>> >> ELSE <<>>)
    \o (IF d.editable.has THEN << <<"editable", d.editable.val>> >> ELSE <<>>)
    \o (IF d.arraySize.has THEN << <<"array-size", d.arraySize.val>> >> ELSE <<>>)

\* the root element as the parser leaves it: text set, then one
\* attributeChangedCallback per attribute present, not yet connected
RootElement(d) ==
    setAttributes([Construct EXCEPT !.textContent = d.text], AttributesOf(d), 1)

----------------------------------------------------------------------------
(* State                                                                   *)

NoDrag == [on |-> FALSE, path |-> Root, key |-> "", overs |-> <<>>]

Op(op, path, key) == [op |-> op, path |-> path, key |-> key]

NoTexts == [q \in {} |-> ""]

NoSession == [on |-> FALSE, path |-> Root, key |-> "", before |-> NoTexts]

Init ==
    /\ \E d \in Scenarios : nodes = (Root :> RootElement(d))
    /\ drag = NoDrag
    /\ events = {}
    /\ lastOp = Op("init", Root, "")
    /\ ops = 0
    /\ session = NoSession

\* one document under every combination of the texts a page may write in
\* the expand and truncate-string attributes, each absent or present
ConfigDocs ==
    {Doc("{\"a\":{\"b\":\"abc\"}}", e, None, t) :
        e \in {None} \cup {Some(x) : x \in {"-1", "0", "1", "2", "3", "x", "", " 2", "2x"}},
        t \in {None} \cup {Some(x) : x \in {"-1", "0", "2", "x", "+3"}}}

InitConfig ==
    /\ \E d \in ConfigDocs : nodes = (Root :> RootElement(d))
    /\ drag = NoDrag
    /\ events = {}
    /\ lastOp = Op("init", Root, "")
    /\ ops = 0
    /\ session = NoSession

Mounted == lastOp.op \notin {"init", "mountFailed"}

\* the host page connects the root element: connectedCallback
Mount ==
    /\ lastOp.op = "init"
    /\ \E r \in {connectedCallback(nodes[Root])} :
           IF r.thrown
           THEN /\ nodes' = nodes
                /\ lastOp' = Op("mountFailed", Root, "")
           ELSE /\ nodes' = RenderTree(r.n, Root)
                /\ lastOp' = Op("mount", Root, "")
    /\ events' = {}
    /\ UNCHANGED <<drag, ops, session>>

----------------------------------------------------------------------------
(* Change propagation                                                      *)

Result(ns, ev, thrown) == [ns |-> ns, ev |-> ev, thrown |-> thrown]

RECURSIVE WriteThrough(_, _, _)
\* the object held by this.input of node p now has the value v.  While the
\* parent's slot holds that same object (aliased: it was stored there by
\* parentHost.handleChildUpdate(myKey, this.input)), the parent's value, and
\* in the same way every ancestor's, changes with it.
WriteThrough(ns, p, v) ==
    IF p # Root /\ ns[p].aliased
    THEN WriteThrough([ns EXCEPT ![p].input = v], Parent(p),
                      SetProp(ns[Parent(p)].input, p[Len(p)], v))
    ELSE [ns EXCEPT ![p].input = v]

\* this.input = this.input ?? {}; this.input[key] = value, on node p.
\* Class bodies are strict code: the assignment to a property of a number,
\* string or boolean throws a TypeError.
AssignInput(ns, p, key, value) ==
    IF ns[p].input.t \in {"null", "undef"}
    THEN Result([ns EXCEPT ![p].input = SetProp(EmptyObj, key, value),
                            ![p].aliased = FALSE], {}, FALSE)
    ELSE IF isPrimitiveValue(ns[p].input) THEN Result(ns, {}, TRUE)
    ELSE Result(WriteThrough(ns, p, SetProp(ns[p].input, key, value)), {}, FALSE)

\* this.textContent = JSON.stringify(this.input)
SetText(ns, p) == [ns EXCEPT ![p].textContent = Stringify(ns[p].input)]

RECURSIVE handleChildUpdate(_, _, _, _)

\* the end of handleChildUpdate on node p: the parent's handleChildUpdate
\* with this node's key and value, or the input event on this node
NotifyParent(ns, p) ==
    IF p # Root /\ Truthy(ns[p].key)
    THEN handleChildUpdate([ns EXCEPT ![p].aliased = TRUE], Parent(p),
                           ns[p].key.val, ns[p].input)
    ELSE Result(ns, {p}, FALSE)

Updated(a, p) == IF a.thrown THEN a ELSE NotifyParent(SetText(a.ns, p), p)

\* handleChildUpdate(key, value) on node p; ev collects the nodes an input
\* event is dispatched on
handleChildUpdate(ns, p, key, value) == Updated(AssignInput(ns, p, key, value), p)

\* the paths of p's nested elements that carry a modified attribute, in
\* document order from child i on
RECURSIVE ModifiedKids(_, _, _)
ModifiedKids(ns, p, i) ==
    IF i > Len(ns[p].box.rows) THEN <<>>
    ELSE (IF /\ ns[p].box.rows[i].kind = "node"
             /\ ns[Append(p, ns[p].box.rows[i].key)].modified.has
          THEN <<Append(p, ns[p].box.rows[i].key)>>
          ELSE <<>>)
         \o ModifiedKids(ns, p, i + 1)

\* if (key && value): the nested element c is stored at its key
StoreModified(ns, p, c) ==
    IF ~Truthy(ns[c].key) THEN ns
    ELSE SetText(WriteThrough([ns EXCEPT ![p].modified = None, ![c].aliased = FALSE],
                              p,
                              SetProp(ns[p].input, ns[c].key.val,
                                      JSONParse(ns[c].textContent).v)),
                 p)

FirstModified(ns, p, found) == IF found = <<>> THEN ns ELSE StoreModified(ns, p, found[1])

\* attributeChangedCallback("modified") on node p
modifiedChanged(ns, p) == FirstModified(ns, p, ModifiedKids(ns, p, 1))

Marked(a, p, key) ==
    IF a.thrown THEN a
    ELSE Result(modifiedChanged([SetText(a.ns, p) EXCEPT ![p].modified = Some(key)], p),
                {}, FALSE)

\* the fallback branch of onInput / onKeyDown: the host is updated directly
\* and marked modified
fallbackUpdate(ns, p, key, value) == Marked(AssignInput(ns, p, key, value), p, key)

\* if (host && typeof host.handleChildUpdate === "function" && key) ... else if (host)
propagate(ns, p, key, value) ==
    IF key # "" THEN handleChildUpdate(ns, p, key, value)
    ELSE fallbackUpdate(ns, p, key, value)

\* an edited text always taken as a string
deriveText(type, text) == Str(text)

\* an edited text always parsed, whatever the element was rendered from
deriveParsed(type, text) == ParseOrText(text)

\* the typed value of an edited text: the literal text for a string leaf,
\* JSON.parse with the raw text as fallback otherwise
derive(type, text) == IF type = "string" THEN Str(text) ELSE ParseOrText(text)

----------------------------------------------------------------------------
(* Edit controller                                                         *)

Rows(p) == 1..Len(nodes[p].box.rows)

PrimAt(ns, p, i) == ns[p].box.rows[i].prim

SetPrim(ns, p, i, prim) == [ns EXCEPT ![p].box.rows[i].prim = prim]

InSession(prim) == prim.editing /\ prim.sessions # <<>>

Detached(row) ==
    IF row.prim.sessions = <<>> THEN row
    ELSE [row EXCEPT !.prim.editing = FALSE, !.prim.sessions = <<>>]

\* every edit session ended by its window click listener
EndSessions(ns) ==
    [q \in DOMAIN ns |->
        [ns[q] EXCEPT !.box.rows =
            [j \in 1..Len(ns[q].box.rows) |-> Detached(ns[q].box.rows[j])]]]

SomeSession(ns) ==
    \E q \in DOMAIN ns : \E j \in 1..Len(ns[q].box.rows) :
        ns[q].box.rows[j].prim.sessions # <<>>

RECURSIVE RowSessions(_, _)
RowSessions(rows, i) ==
    IF i > Len(rows) THEN 0 ELSE Len(rows[i].prim.sessions) + RowSessions(rows, i + 1)

RECURSIVE TreeSessions(_, _)
\* the number of edit listener sets attached in the nodes of the set S
TreeSessions(ns, S) ==
    IF S = {} THEN 0
    ELSE RowSessions(ns[CHOOSE q \in S : TRUE].box.rows, 1)
             + TreeSessions(ns, S \ {CHOOSE q \in S : TRUE})

CanStartSession == TreeSessions(nodes, DOMAIN nodes) < MaxSessions

\* a user event can be handled: the root is mounted and the run has steps left
CanStep == Mounted /\ ops < MaxSteps

\* while a drag gesture lasts the browser delivers no mouse or keyboard event
Interactive == CanStep /\ ~drag.on

\* the canonical text of every node
TextOf(ns) == [q \in DOMAIN ns |-> ns[q].textContent]

\* history of the edit session that a click started on an element without
\* listeners: the element, and every node's text right before the click
Started(p, prim) ==
    IF prim.sessions = <<>>
    THEN [on |-> TRUE, path |-> p, key |-> prim.key, before |-> TextOf(nodes)]
    ELSE NoSession

\* the session goes on while only its own element is typed in
Continued(p, prim) ==
    IF session.on /\ session.path = p /\ session.key = prim.key THEN session
    ELSE NoSession

\* the click handler of a primitive element: a new set of listeners with the
\* text shown now as its originalText
Clicked(prim) ==
    [prim EXCEPT !.editing = TRUE, !.sessions = Append(prim.sessions, prim.text)]

\* a click on the text of a primitive element that carries the edit handler
ClickPrim(p, i) ==
    /\ Interactive
    /\ PrimAt(nodes, p, i).handler
    /\ CanStartSession
    /\ nodes' = SetPrim(nodes, p, i, Clicked(PrimAt(nodes, p, i)))
    /\ session' = Started(p, PrimAt(nodes, p, i))
    /\ lastOp' = Op("click", p, PrimAt(nodes, p, i).key)
    /\ events' = {}
    /\ ops' = ops + 1
    /\ UNCHANGED drag

\* the click listener of the continuation control
Revealed(prim) == [prim EXCEPT !.ellipsis = FALSE, !.text = prim.full, !.revealed = TRUE]

\* a click on the continuation control of a truncated string: the control is
\* removed and the full string shown; the click then bubbles to the element's
\* edit handler when it has one, and to the window otherwise
ClickEllipsis(p, i) ==
    /\ Interactive
    /\ PrimAt(nodes, p, i).ellipsis
    /\ PrimAt(nodes, p, i).handler => CanStartSession
    /\ nodes' = IF PrimAt(nodes, p, i).handler
                THEN SetPrim(nodes, p, i, Clicked(Revealed(PrimAt(nodes, p, i))))
                ELSE EndSessions(SetPrim(nodes, p, i, Revealed(PrimAt(nodes, p, i))))
    /\ session' = IF PrimAt(nodes, p, i).handler THEN Started(p, PrimAt(nodes, p, i))
                  ELSE NoSession
    /\ lastOp' = Op("reveal", p, PrimAt(nodes, p, i).key)
    /\ events' = {}
    /\ ops' = ops + 1
    /\ UNCHANGED drag

\* a click that reaches the window with a target outside every element
OutsideClick ==
    /\ Interactive
    /\ SomeSession(nodes)
    /\ nodes' = EndSessions(nodes)
    /\ session' = NoSession
    /\ lastOp' = Op("outside", Root, "")
    /\ events' = {}
    /\ ops' = ops + 1
    /\ UNCHANGED drag

\* onInput of the element, which now shows text
onInput(ns, p, i, prim, text) ==
    propagate(SetPrim(ns, p, i, [prim EXCEPT !.text = text, !.dirty = TRUE]),
              p, prim.key, derive(prim.type, text))

\* an input event: the user has left text in the element being edited (the
\* listener sets of the element all derive and propagate the same value)
Input(p, i, text) ==
    /\ Interactive
    /\ InSession(PrimAt(nodes, p, i))
    /\ \E r \in {onInput(nodes, p, i, PrimAt(nodes, p, i), text)} :
           /\ nodes' = r.ns
           /\ events' = r.ev
    /\ session' = Continued(p, PrimAt(nodes, p, i))
    /\ lastOp' = Op("input", p, PrimAt(nodes, p, i).key)
    /\ ops' = ops + 1
    /\ UNCHANGED drag

\* keydown Enter: every listener set of the element detaches itself
Enter(p, i) ==
    /\ Interactive
    /\ InSession(PrimAt(nodes, p, i))
    /\ nodes' = SetPrim(nodes, p, i,
                    [PrimAt(nodes, p, i) EXCEPT !.editing = FALSE, !.sessions = <<>>])
    /\ session' = NoSession
    /\ lastOp' = Op("enter", p, PrimAt(nodes, p, i).key)
    /\ events' = {}
    /\ ops' = ops + 1
    /\ UNCHANGED drag

RECURSIVE escapeFrom(_, _, _, _, _)

Threw(r) == [r EXCEPT !.thrown = TRUE]

\* after one listener's propagation r of the reverted value: a throw ends
\* that listener, which stays attached; the next listener set follows
escapeNext(r, ns1, ev, p, i, j) ==
    IF r.thrown THEN Threw(escapeFrom(ns1, ev, p, i, j + 1))
    ELSE escapeFrom(r.ns, ev \cup r.ev, p, i, j + 1)

\* container.textContent = originalText, then the reverted value propagated
escapeOne(ns1, ev, p, i, j, prim, orig) ==
    escapeNext(propagate(ns1, p, prim.key, derive(prim.type, orig)), ns1, ev, p, i, j)

\* the keydown listeners of the element from the j-th on, each with its own
\* originalText: restore the text, propagate the reverted value, detach
escapeFrom(ns, ev, p, i, j) ==
    IF j > Len(PrimAt(ns, p, i).sessions) THEN Result(ns, ev, FALSE)
    ELSE escapeOne(SetPrim(ns, p, i,
                       [PrimAt(ns, p, i) EXCEPT !.text = PrimAt(ns, p, i).sessions[j],
                                                !.anchor = FALSE, !.ellipsis = FALSE,
                                                !.dirty = TRUE]),
                   ev, p, i, j, PrimAt(ns, p, i), PrimAt(ns, p, i).sessions[j])

\* the element once its keydown listeners have run
Escaped(r, p, i) ==
    IF r.thrown THEN r.ns
    ELSE SetPrim(r.ns, p, i,
             [PrimAt(r.ns, p, i) EXCEPT !.editing = FALSE, !.sessions = <<>>])

\* keydown Escape
Escape(p, i) ==
    /\ Interactive
    /\ InSession(PrimAt(nodes, p, i))
    /\ \E r \in {escapeFrom(nodes, {}, p, i, 1)} :
           /\ nodes' = Escaped(r, p, i)
           /\ events' = r.ev
    /\ session' = Continued(p, PrimAt(nodes, p, i))
    /\ lastOp' = Op("escape", p, PrimAt(nodes, p, i).key)
    /\ ops' = ops + 1
    /\ UNCHANGED drag

----------------------------------------------------------------------------
(* Expand / collapse                                                       *)

\* this.isExpanded = !this.isExpanded
Flipped(n) == [n EXCEPT !.isExpanded = ~n.isExpanded]

\* a toggle that writes the depth it had when it expands
ReexpandedSame(n) ==
    setAttribute(n, "expand",
                 IF n.isExpanded THEN ToString(expandAttributeValue(n)) ELSE "0")

\* this.setAttribute("expand", ...) of toggle()
Reexpanded(n) ==
    setAttribute(n, "expand",
                 IF n.isExpanded THEN ToString(expandAttributeValue(n) + 1) ELSE "0")

\* a toggle that forgets the value of the node
toggleCleared(ns, p) ==
    ReplaceTree(ns, p, RenderTree(Reexpanded(Flipped([ns[p] EXCEPT !.input = EmptyObj])), p))

\* toggle() on node p
toggle(ns, p) == ReplaceTree(ns, p, RenderTree(Reexpanded(Flipped(ns[p])), p))

\* a click on the key header or on the expand control of node p (the click
\* goes on to the window), or a call of toggle() by the host page
Toggle(p, byClick) ==
    /\ Interactive
    /\ nodes[p].box.kind = "box"
    /\ byClick => nodes[p].box.header \/ nodes[p].box.ellipsis
    /\ \E ns \in {toggle(nodes, p)} :
           nodes' = IF byClick THEN EndSessions(ns) ELSE ns
    /\ session' = NoSession
    /\ lastOp' = Op(IF byClick THEN "toggleClick" ELSE "toggle", p, "")
    /\ events' = {}
    /\ ops' = ops + 1
    /\ UNCHANGED drag

----------------------------------------------------------------------------
(* Reorder controller                                                      *)

\* position among the container's children of the row with key k, 0 if none
RECURSIVE RowPos(_, _, _)
RowPos(rows, k, i) ==
    IF i > Len(rows) THEN 0
    ELSE IF rows[i].kind = "row" /\ rows[i].key = k THEN i
    ELSE RowPos(rows, k, i + 1)

RemoveAt(seq, i) == SubSeq(seq, 1, i - 1) \o SubSeq(seq, i + 1, Len(seq))

\* the test the other way round: el1 is among the previous siblings of el2
isBeforeSwapped(rows, el1, el2) == el1 < el2

\* isBefore(el1, el2): el2 is among the previous siblings of el1
isBefore(rows, el1, el2) == el2 < el1

\* container.insertBefore(child, reference) for the child at position d and
\* the reference at position t (past the end: null): the child is taken out,
\* which moves a later reference one place down, and put before the reference
insertBefore(rows, d, t) ==
    InsertAt(RemoveAt(rows, d), IF d < t THEN t - 1 ELSE t, rows[d])

\* the body of dragOver for the dragged row at position d and the target row
\* at position t: container.insertBefore(dragged, targetRow) when
\* isBefore(dragged, targetRow), else
\* container.insertBefore(dragged, targetRow.nextSibling)
dragOver(rows, d, t) ==
    IF isBefore(rows, d, t)
    THEN insertBefore(rows, d, t)
    ELSE insertBefore(rows, d, t + 1)

\* dragstart on the row at position i of node p
DragStart(p, i) ==
    /\ Interactive
    /\ nodes[p].box.rows[i].draggable
    /\ nodes' = [nodes EXCEPT ![p].box.selected = Some(nodes[p].box.rows[i].key),
                              ![p].box.rows[i].dragged = TRUE]
    /\ drag' = [on |-> TRUE, path |-> p, key |-> nodes[p].box.rows[i].key, overs |-> <<>>]
    /\ session' = NoSession
    /\ lastOp' = Op("dragstart", p, nodes[p].box.rows[i].key)
    /\ events' = {}
    /\ ops' = ops + 1

\* a dragover that moves the row the one drag of the page started on,
\* whichever container recorded it
DraggedOverShared(box, d, j) ==
    IF ~drag.on \/ RowPos(box.rows, drag.key, 1) \in {0, j} THEN box.rows
    ELSE dragOver(box.rows, RowPos(box.rows, drag.key, 1), j)

\* the rows of a container after dragover on its row at position j, the
\* selected row being at position d (0: none)
DraggedOver(box, d, j) ==
    IF ~box.selected.has \/ d = 0 \/ d = j THEN box.rows
    ELSE dragOver(box.rows, d, j)

\* dragover on the row at position j of node q, which carries the listener
DragOver(q, j) ==
    /\ CanStep
    /\ drag.on
    /\ nodes[q].box.rows[j].draggable
    /\ nodes' = [nodes EXCEPT ![q].box.rows =
                    DraggedOver(nodes[q].box, RowPos(nodes[q].box.rows,
                                                     nodes[q].box.selected.val, 1), j)]
    /\ drag' = [drag EXCEPT !.overs = Append(@, <<q, nodes[q].box.rows[j].key>>)]
    /\ session' = NoSession
    /\ lastOp' = Op("dragover", q, nodes[q].box.rows[j].key)
    /\ events' = {}
    /\ ops' = ops + 1

\* the value dragEnd reads from a row: its trimmed text parsed as JSON, or
\* the trimmed text itself (no row of the container wraps a nested element:
\* those are children of the container, not of a row)
rowValue(row) == ParseOrText(Trim(row.prim.text))

RECURSIVE rowValues(_, _)
\* container.querySelectorAll(":scope > .row") mapped to the rows' values
rowValues(rows, i) ==
    IF i > Len(rows) THEN <<>>
    ELSE (IF rows[i].kind = "row" THEN <<rowValue(rows[i])>> ELSE <<>>)
             \o rowValues(rows, i + 1)

\* self.input = newArr; self.textContent = JSON.stringify(newArr)
WithArray(n, newArr) ==
    [n EXCEPT !.input = newArr, !.aliased = FALSE, !.textContent = Stringify(newArr)]

\* the end of dragEnd on node p: parentHost.handleChildUpdate(myKey,
\* self.input) when there is a parent and a key, and nothing otherwise
BubbleUp(ns, p) ==
    IF p # Root /\ Truthy(ns[p].key)
    THEN handleChildUpdate([ns EXCEPT ![p].aliased = TRUE], Parent(p),
                           ns[p].key.val, ns[p].input)
    ELSE Result(ns, {}, FALSE)

\* a drag end that leaves the container as it is
dragEndIdle(ns, p) == Result(ns, {}, FALSE)

\* the body of dragEnd on node p
dragEnd(ns, p) ==
    BubbleUp(ReplaceTree(ns, p,
                 RenderTree(WithArray(ns[p], Arr(rowValues(ns[p].box.rows, 1))), p)),
             p)

\* dragend, delivered to the row the gesture started on
DragEnd ==
    /\ CanStep
    /\ drag.on
    /\ \E r \in {dragEnd(nodes, drag.path)} :
           /\ nodes' = r.ns
           /\ events' = r.ev
    /\ session' = NoSession
    /\ lastOp' = Op("dragend", drag.path, drag.key)
    /\ drag' = NoDrag
    /\ ops' = ops + 1

Reorder ==
    \/ \E p \in DOMAIN nodes : \E i \in Rows(p) : DragStart(p, i) \/ DragOver(p, i)
    \/ DragEnd

Edit ==
    \E p \in DOMAIN nodes : \E i \in Rows(p) :
        \/ ClickPrim(p, i)
        \/ ClickEllipsis(p, i)
        \/ \E text \in InputTexts : Input(p, i, text)
        \/ Enter(p, i)
        \/ Escape(p, i)

Expand == \E p \in DOMAIN nodes : \E byClick \in BOOLEAN : Toggle(p, byClick)

Next == Mount \/ Edit \/ OutsideClick \/ Expand \/ Reorder

Spec == Init /\ [][Next]_vars

\* the host page sets (a present) or removes (a absent) the expand attribute
\* of node p: attributeChangedCallback("expand", old, a) and its render()
Reattribute(p, a) ==
    /\ Interactive
    /\ a.has \/ nodes[p].expand.has
    /\ nodes' = ReplaceTree(nodes, p,
                    RenderTree(attributeChangedCallback([nodes[p] EXCEPT !.expand = a],
                                                        "expand"), p))
    /\ lastOp' = Op(IF a.has THEN "setExpand" ELSE "removeExpand", p, "")
    /\ events' = {}
    /\ ops' = ops + 1
    /\ UNCHANGED <<drag, session>>

\* a viewer under each attribute combination: mount, expand and collapse,
\* and changes of the expand attribute
NextConfig ==
    \/ Mount
    \/ Expand
    \/ \E p \in DOMAIN nodes : \E a \in {None, Some("0"), Some("2")} : Reattribute(p, a)

SpecConfig == InitConfig /\ [][NextConfig]_vars

----------------------------------------------------------------------------
(* The variant that reveals a truncated string chunk by chunk              *)

\* activations of the continuation control of one element
MaxClicks == 6

\* String.prototype.slice(from, to) with 0 <= from, counted from 0
Slice(s, from, to) ==
    SubSeq(s, (IF from > Len(s) THEN Len(s) ELSE from) + 1, IF to > Len(s) THEN Len(s) ELSE to)

NoContainer == [kind |-> "none", text |-> "", expandedTimes |-> 0, ellipsis |-> FALSE]

\* createTruncatedStringElement of the variant: the first chunk, the counter
\* data-expanded-times at "1", and the control
createTruncatedStringChunks(input, limit) ==
    [kind |-> "truncated", text |-> Slice(input, 0, limit), expandedTimes |-> 1,
     ellipsis |-> TRUE]

\* createPrimitiveValueElement of the variant for a string
createStringElement(n) ==
    IF isValidStringURL(n)
    THEN [NoContainer EXCEPT !.kind = "url", !.text = "\"" \o n.input.s \o "\""]
    ELSE IF Len(n.input.s) > truncateStringAttributeValue(n)
    THEN createTruncatedStringChunks(n.input.s, truncateStringAttributeValue(n))
    ELSE [NoContainer EXCEPT !.kind = "plain", !.text = n.input.s]

\* the click listener of the control: the next chunk is appended to the text
\* node and the control removed once the text equals the input
ellipsisClick(c, input, limit) ==
    [c EXCEPT !.expandedTimes = c.expandedTimes + 1,
              !.text = c.text \o Slice(input, c.expandedTimes * limit,
                                       (c.expandedTimes + 1) * limit),
              !.ellipsis = c.text \o Slice(input, c.expandedTimes * limit,
                                           (c.expandedTimes + 1) * limit) # input]

\* an element of the variant holding a string, under every text a page may
\* write in truncate-string
InitChunks ==
    /\ \E str \in {"abcde", "abc", "a", "", "u:abcd"} :
       \E t \in {None} \cup {Some(x) : x \in {"0", "1", "2", "3", "-1", "x"}} :
           nodes = (Root :> [input |-> Str(str), truncate |-> t, container |-> NoContainer])
    /\ drag = NoDrag
    /\ events = {}
    /\ lastOp = Op("init", Root, "")
    /\ ops = 0
    /\ session = NoSession

\* connectedCallback of the variant: the element is rendered
MountChunks ==
    /\ lastOp.op = "init"
    /\ nodes' = [nodes EXCEPT ![Root].container = createStringElement(nodes[Root])]
    /\ lastOp' = Op("mount", Root, "")
    /\ UNCHANGED <<drag, events, ops, session>>

\* a click on the continuation control
Reveal ==
    /\ nodes[Root].container.ellipsis
    /\ nodes[Root].container.expandedTimes <= MaxClicks
    /\ nodes' = [nodes EXCEPT ![Root].container =
                     ellipsisClick(nodes[Root].container, nodes[Root].input.s,
                                   truncateStringAttributeValue(nodes[Root]))]
    /\ lastOp' = Op("reveal", Root, "")
    /\ UNCHANGED <<drag, events, ops, session>>

\* the page writes truncate-string: attributeChangedCallback renders anew
Retruncate(a) ==
    /\ lastOp.op # "init"
    /\ nodes' = [nodes EXCEPT ![Root].truncate = a,
                              ![Root].container =
                                  createStringElement([nodes[Root] EXCEPT !.truncate = a])]
    /\ lastOp' = Op("setTruncate", Root, "")
    /\ UNCHANGED <<drag, events, ops, session>>

NextChunks ==
    \/ MountChunks
    \/ Reveal
    \/ \E a \in {Some("0"), Some("2")} : Retruncate(a)

SpecChunks == InitChunks /\ [][NextChunks]_vars

----------------------------------------------------------------------------
(* Properties                                                              *)

\* the primitive element of node p whose key attribute is k
LeafOf(p, k) == nodes[p].box.rows[RowPos(nodes[p].box.rows, k, 1)].prim

\* the paths of node p and of its ancestors
Ancestors(p) == {SubSeq(p, 1, n) : n \in 0..Len(p)}

\* every rendered row, as <<path, position>>
AllRows == UNION {{<<q, i>> : i \in 1..Len(nodes[q].box.rows)} : q \in DOMAIN nodes}

RowAt(qi) == nodes[qi[1]].box.rows[qi[2]]

Committed(prim, typed, text) ==
    /\ text.ok
    /\ HasProp(text.v, prim.key)
    /\ GetProp(text.v, prim.key) = typed.v

CommitCase(p, prim) ==
    /\ nodes[p].input.t \in {"obj", "arr"}
    /\ prim.type \in {"number", "boolean", "null"}
    /\ prim.dirty
    /\ JSONParse(prim.text).ok

\* C1: when Enter ends the edit of a non-string leaf at key k of an object or
\* array node, and the text left in the element parses as JSON, the node's
\* textContent parses to a value that has k mapped to the parsed text.
C1_EditCommit ==
    (lastOp.op = "enter" /\ CommitCase(lastOp.path, LeafOf(lastOp.path, lastOp.key)))
        => Committed(LeafOf(lastOp.path, lastOp.key),
                     JSONParse(LeafOf(lastOp.path, lastOp.key).text),
                     JSONParse(nodes[lastOp.path].textContent))

C1_Witness ==
    /\ lastOp.op = "enter"
    /\ lastOp.path = Root
    /\ lastOp.key = "x"
    /\ CommitCase(Root, LeafOf(Root, "x"))
    /\ LeafOf(Root, "x").text = "7"
    /\ nodes[Root].textContent = "{\"x\":7}"

\* C2: when Escape ends an edit session in which only the session's element
\* received input, the textContent of the owning node and of each of its
\* ancestors is what it was right before the click that started the session.
C2_EditRevert ==
    (lastOp.op = "escape" /\ session.on)
        => \A q \in Ancestors(session.path) : nodes[q].textContent = session.before[q]

AllPrimitive(v) == v.t = "arr" /\ \A i \in 1..Len(v.a) : isPrimitiveValue(v.a[i])

\* the array a with its element at position i moved to right after the
\* element at the later position j
MovedAfter(a, i, j) == InsertAt(RemoveAt(a, i), j, a[i])

ReorderCase ==
    /\ drag.on
    /\ lastOp'.op = "dragend"
    /\ Len(drag.overs) = 1
    /\ drag.overs[1][1] = drag.path
    /\ AllPrimitive(nodes[drag.path].input)
    /\ IndexVal(drag.overs[1][2]) > IndexVal(drag.key)

Reordered(n, expected) ==
    /\ n.input = expected
    /\ n.textContent = Stringify(expected)

\* C3: a drag of the row at position i of an array of primitives over one row
\* at a later position j, then ended, leaves the array with the dragged
\* element right after the element of row j and the others in their order.
C3_Reorder ==
    [][ReorderCase =>
          Reordered(nodes'[drag.path],
                    Arr(MovedAfter(nodes[drag.path].input.a,
                                   IndexVal(drag.key) + 1,
                                   IndexVal(drag.overs[1][2]) + 1)))]_vars

HoldsChild(parent, key, child) ==
    /\ HasProp(parent.input, key)
    /\ GetProp(parent.input, key) = child.input
    /\ parent.textContent = Stringify(parent.input)

\* C4: after a live input on a leaf, every ancestor of the leaf's node holds,
\* at the key of the child on the path, the child's value, and the ancestor's
\* textContent is the serialisation of its value.
C4_DeepPropagation ==
    lastOp.op = "input"
        => \A q \in Ancestors(lastOp.path) \ {Root} :
               HoldsChild(nodes[Parent(q)], q[Len(q)], nodes[q])

\* C5: every step that changes the value of the mounted root dispatches an
\* input event on the root and on no other node.
C5_ChangeNotification ==
    [][(Mounted /\ nodes'[Root].input # nodes[Root].input) => events' = {Root}]_vars

IsCurrent(n, r) == r.ok /\ r.v = n.input

\* C6: in every state after the mount, the textContent of every node parses
\* to that node's input.
C6_CanonicalCurrent ==
    Mounted => \A q \in DOMAIN nodes : IsCurrent(nodes[q], JSONParse(nodes[q].textContent))

NoEditHandlers ==
    \A qi \in AllRows : ~RowAt(qi).prim.handler /\ ~RowAt(qi).draggable

\* C7: when the root is mounted without the editable attribute, no element has
\* an edit click handler, no row is draggable, and no step changes the
\* textContent of a node.
C7_ViewerByDefault ==
    [][(Mounted /\ ~nodes[Root].editableAttr.has)
          => /\ NoEditHandlers
             /\ \A q \in (DOMAIN nodes) \cap (DOMAIN nodes') :
                    nodes'[q].textContent = nodes[q].textContent]_vars

\* the nested entries of node q: the keys whose value gets a nested element
NestedKeys(q) ==
    {Entries(nodes[q].input)[i][1] :
         i \in {j \in 1..Len(Entries(nodes[q].input)) :
                    ~IsInline(Entries(nodes[q].input)[j][2])}}

ShownAtDepth(q, d) ==
    /\ nodes[q].isExpanded <=> Len(q) < d
    /\ nodes[q].isExpanded
           => /\ ~nodes[q].box.ellipsis
              /\ Len(nodes[q].box.rows) = Len(Entries(nodes[q].input))
              /\ \A k \in NestedKeys(q) : Append(q, k) \in DOMAIN nodes
    /\ ~nodes[q].isExpanded
           => /\ nodes[q].box.ellipsis
              /\ nodes[q].box.rows = <<>>

\* C8: right after the mount of a root with depth d (1 without the expand
\* attribute), every object or array node at level n is expanded, showing its
\* entries, when n < d, and collapsed, showing none, when n >= d.
C8_ExpandDefault ==
    lastOp.op = "mount"
        => \A q \in DOMAIN nodes :
               nodes[q].box.kind = "box"
                   => ShownAtDepth(q, expandAttributeValue(nodes[Root]))

C8_Witness ==
    /\ lastOp.op = "mount"
    /\ ~nodes[Root].expand.has
    /\ nodes[Root].isExpanded
    /\ <<"a">> \in DOMAIN nodes
    /\ ~nodes[<<"a">>].isExpanded
    /\ nodes[<<"a">>].box.ellipsis

\* the string an element displays: the text between the quotes of a hyperlink
Displayed(prim) ==
    IF prim.anchor THEN SubSeq(prim.text, 2, Len(prim.text) - 1) ELSE prim.text

Truncated(prim, limit) ==
    IF prim.revealed THEN Displayed(prim) = prim.full /\ ~prim.ellipsis
    ELSE IF Len(prim.full) > limit
    THEN Displayed(prim) = SubSeq(prim.full, 1, limit) /\ prim.ellipsis
    ELSE Displayed(prim) = prim.full /\ ~prim.ellipsis

\* a string element as the node rendered it, or with its control activated
AsRendered(row) == row.kind = "row" /\ row.prim.type = "string" /\ ~row.prim.dirty

\* C9 (amended): a rendered string leaf that is not shown as a hyperlink
\* shows its first limit characters and the control when it is longer than the
\* limit, and the whole string without a control otherwise; once the control
\* has been activated the whole string is shown and no control remains.
C9_Truncation ==
    \A qi \in AllRows :
        (AsRendered(RowAt(qi)) /\ ~RowAt(qi).prim.anchor)
            => Truncated(RowAt(qi).prim, truncateStringAttributeValue(nodes[qi[1]]))

C9_Witness ==
    \E qi \in AllRows :
        /\ AsRendered(RowAt(qi))
        /\ ~RowAt(qi).prim.anchor
        /\ RowAt(qi).prim.revealed
        /\ Len(RowAt(qi).prim.full) > truncateStringAttributeValue(nodes[qi[1]])
        /\ RowAt(qi).prim.text = "abcd"
        /\ lastOp.op = "reveal"

\* C9 (as claimed): every rendered string leaf, hyperlink or not, is
\* truncated when it is longer than the limit.
C9_TruncationOfAnyString ==
    \A qi \in AllRows :
        AsRendered(RowAt(qi))
            => Truncated(RowAt(qi).prim, truncateStringAttributeValue(nodes[qi[1]]))

MarkerRow(rows, pos) == pos > 0 /\ rows[pos].marker

\* C10: in every state after the mount, each entry of an expanded object or
\* array node whose value is an empty array has a row with the empty-array
\* marker, and no nested node.
C10_EmptyArray ==
    Mounted
        => \A q \in DOMAIN nodes :
               (nodes[q].box.kind = "box" /\ nodes[q].isExpanded)
                   => \A i \in 1..Len(Entries(nodes[q].input)) :
                          IsEmptyArray(Entries(nodes[q].input)[i][2])
                              => /\ MarkerRow(nodes[q].box.rows,
                                              RowPos(nodes[q].box.rows,
                                                     Entries(nodes[q].input)[i][1], 1))
                                 /\ Append(q, Entries(nodes[q].input)[i][1])
                                        \notin DOMAIN nodes

\* C11: the mount of a root whose text does not parse as JSON throws
\* xPreJSONError: the value stays unset and nothing is rendered.
C11_MountFailure ==
    [][(lastOp.op = "init" /\ ~JSONParse(nodes[Root].textContent).ok)
          => /\ lastOp'.op = "mountFailed"
             /\ nodes'[Root].input = Undefined
             /\ nodes' = nodes]_vars

C11_Witness ==
    /\ lastOp.op = "mountFailed"
    /\ nodes[Root].textContent = "7x"
    /\ nodes[Root].input = Undefined
    /\ nodes[Root].box = NoBox
    /\ DOMAIN nodes = {Root}

\* an attribute whose attributeChangedCallback calls render()
RenderAttribute(n) ==
    n.expand.has \/ n.truncate.has \/ n.editableAttr.has \/ n.arraySize.has

\* the shadow content render() makes of the value undefined
UndefinedShown(box) ==
    /\ box.kind = "prim"
    /\ Len(box.rows) = 1
    /\ box.rows[1].prim.type = "undefined"
    /\ box.rows[1].prim.text = ""
    /\ ~box.rows[1].prim.anchor
    /\ ~box.rows[1].prim.ellipsis

\* C12 (amended): render() on an element whose value is not yet set (an
\* attribute changed before the element is connected) does not fail: it shows
\* the value undefined as one empty primitive element, which the render of
\* connectedCallback replaces.
C12_RenderOfUnsetValue ==
    /\ \A q \in DOMAIN nodes :
           (nodes[q].input = Undefined /\ RenderAttribute(nodes[q]))
               => UndefinedShown(nodes[q].box)
    /\ Mounted => \A qi \in AllRows : RowAt(qi).prim.type # "undefined"

C12_Witness ==
    /\ lastOp.op = "init"
    /\ nodes[Root].input = Undefined
    /\ nodes[Root].editableAttr.has
    /\ UndefinedShown(nodes[Root].box)
    /\ nodes[Root].box.rows[1].prim.handler

\* C12 (as claimed): an element whose value is not set has no rendered
\* content, render() having failed.
C12_RenderNeedsValue ==
    \A q \in DOMAIN nodes : nodes[q].input = Undefined => nodes[q].box = NoBox

\* C13: every rendered string, at the root or in a row of an object or array,
\* is a hyperlink exactly when the string parses as an absolute URL.
C13_UrlRendering ==
    Mounted =>
        \A qi \in AllRows :
            RowAt(qi).prim.type = "string"
                => (RowAt(qi).prim.anchor <=> IsAbsoluteURL(RowAt(qi).prim.full))

\* C14: the header of a keyed array shows the element count exactly when the
\* array-size option is set on the root element.
C14_ArrayCount ==
    Mounted =>
        \A q \in DOMAIN nodes :
            (nodes[q].box.kind = "box" /\ nodes[q].box.header /\ nodes[q].input.t = "arr")
                => (nodes[q].box.count <=> nodes[Root].arraySize.has)

RECURSIVE ValueAt(_, _)
\* the value found in v by following the keys of path
ValueAt(v, path) ==
    IF Len(path) = 0 THEN v ELSE ValueAt(GetProp(v, Head(path)), Tail(path))

\* text parses as JSON, to the value v with its keys in the same order
ParsesTo(text, r, v) == r.ok /\ r.v = v

\* every element of ns holds text that parses to the part of v at its path
RoundTrip(ns, v) ==
    \A q \in DOMAIN ns :
        /\ ParsesTo(ns[q].textContent, JSONParse(ns[q].textContent), ValueAt(v, q))
        /\ ns[q].input = ValueAt(v, q)

\* C15: after the mount of a text that is valid JSON, the text of the root
\* and of every nested element parses to the value of the mounted text (its
\* part at the element's path), keys in the same order.
C15_RoundTrip ==
    [][(lastOp.op = "init" /\ lastOp'.op = "mount")
          => RoundTrip(nodes', JSONParse(nodes[Root].textContent).v)]_vars

C15_Witness ==
    /\ lastOp.op = "mount"
    /\ nodes[Root].textContent = "{ \"a\" : {\"b\":\"\\\"\\\\\",\"2\":0} }"
    /\ <<"a">> \in DOMAIN nodes
    /\ nodes[<<"a">>].textContent = "{\"2\":0,\"b\":\"\\\"\\\\\"}"
    /\ nodes[<<"a">>].input = Obj(<<"2", "b">>, <<Num(0), Str("\"\\")>>)

\* the integer a decimal numeral stands for
Numeral(s) == CHOOSE k \in -9..500 : ToString(k) = s

IsNumeral(s) == \E k \in -9..500 : ToString(k) = s

\* what the claim gives for an attribute text: the integer of a numeral (of
\* " 2", "+3" and "2x" as Number.parseInt reads them: a leading integer), 0
\* when that is negative or when there is none
Coerced(s) ==
    IF IsNumeral(s) THEN (IF Numeral(s) < 0 THEN 0 ELSE Numeral(s))
    ELSE CASE s = " 2" -> 2
           [] s = "2x" -> 2
           [] s = "+3" -> 3
           [] OTHER    -> 0

Effective(a, default) == IF ~a.has THEN default ELSE Coerced(a.val)

\* a collapsed node: not expanded, and an object or array shows no entry
Collapsed(n) ==
    /\ ~n.isExpanded
    /\ n.box.kind = "box" => n.box.ellipsis /\ n.box.rows = <<>>

\* C16: the effective expand depth of every element is 1 when the attribute
\* is missing, 0 when it is negative or no integer, its integer value
\* otherwise; the effective truncation limit likewise with 500 when missing;
\* an element of effective depth 0 is collapsed.
C16_Coercion ==
    \A q \in DOMAIN nodes :
        /\ expandAttributeValue(nodes[q]) = Effective(nodes[q].expand, 1)
        /\ truncateStringAttributeValue(nodes[q]) = Effective(nodes[q].truncate, 500)
        /\ expandAttributeValue(nodes[q]) = 0 => Collapsed(nodes[q])

C16_Witness ==
    /\ lastOp.op = "mount"
    /\ nodes[Root].expand = Some("-1")
    /\ nodes[Root].truncate = Some("x")
    /\ expandAttributeValue(nodes[Root]) = 0
    /\ truncateStringAttributeValue(nodes[Root]) = 0
    /\ nodes[Root].box.ellipsis

\* a dragover on a row of the container the drag started in, other than the
\* dragged row
DragOverCase ==
    /\ drag.on
    /\ lastOp'.op = "dragover"
    /\ lastOp'.path = drag.path
    /\ lastOp'.key # drag.key

\* the children after are the children before with the dragged one (at d
\* before, at d2 after) put next to the candidate (at t before, at t2 after):
\* right after it or right before it, by whether the dragged one was earlier
Moved(before, after, d, t, d2, t2, earlierGoesAfter) ==
    /\ d > 0 /\ t > 0 /\ d2 > 0 /\ t2 > 0
    /\ RemoveAt(after, d2) = RemoveAt(before, d)
    /\ ((d < t) = earlierGoesAfter) => d2 = t2 + 1
    /\ ((d < t) # earlierGoesAfter) => d2 = t2 - 1

MovedOver(before, after, dragged, candidate, earlierGoesAfter) ==
    Moved(before, after,
          RowPos(before, dragged, 1), RowPos(before, candidate, 1),
          RowPos(after, dragged, 1), RowPos(after, candidate, 1), earlierGoesAfter)

\* C17 (amended): on a drag over a candidate row of the same container, other
\* than the dragged row, a dragged row that is earlier in sibling order than
\* the candidate is moved to just after the candidate; otherwise it is moved
\* to just before the candidate. The other children keep their order.
C17_DragOver ==
    [][DragOverCase =>
          MovedOver(nodes[drag.path].box.rows, nodes'[drag.path].box.rows,
                    drag.key, lastOp'.key, TRUE)]_vars

C17_Witness ==
    /\ lastOp.op = "dragover"
    /\ lastOp.path = Root
    /\ lastOp.key = "2"
    /\ drag.on /\ drag.path = Root /\ drag.key = "0"
    /\ Len(drag.overs) = 1
    /\ Len(nodes[Root].box.rows) = 3
    /\ nodes[Root].box.rows[2].key = "2"
    /\ nodes[Root].box.rows[3].key = "0"

\* C17 (as claimed): a dragged row that is earlier than the candidate is moved
\* to just before the candidate; otherwise it is moved to just after it.
C17_DragOverAsClaimed ==
    [][DragOverCase =>
          MovedOver(nodes[drag.path].box.rows, nodes'[drag.path].box.rows,
                    drag.key, lastOp'.key, FALSE)]_vars

RECURSIVE Count(_, _, _)
\* how many of the items i.. of the sequence a are equal to v
Count(a, v, i) ==
    IF i > Len(a) THEN 0
    ELSE (IF a[i] = v THEN 1 ELSE 0) + Count(a, v, i + 1)

\* b holds the values of a, each as many times, in some order
IsPermutation(a, b) ==
    /\ Len(a) = Len(b)
    /\ \A i \in 1..Len(a) : Count(b, a[i], 1) = Count(a, a[i], 1)

\* C18: the array a node holds after a drag has ended is a permutation of the
\* array it held before the drag ended: same length, same values of the same
\* types, each as many times.
C18_ReorderPermutes ==
    [][(drag.on /\ lastOp'.op = "dragend")
          => /\ nodes'[drag.path].input.t = "arr"
             /\ IsPermutation(nodes[drag.path].input.a, nodes'[drag.path].input.a)]_vars

\* C19: a drag that ends with no dragover on a row of the container it started
\* in leaves the value and the text of the owning node and of each of its
\* ancestors as they were.
C19_DragNoOp ==
    [][(/\ drag.on
        /\ lastOp'.op = "dragend"
        /\ \A i \in 1..Len(drag.overs) : drag.overs[i][1] # drag.path)
          => \A q \in Ancestors(drag.path) :
                 /\ nodes'[q].input = nodes[q].input
                 /\ nodes'[q].textContent = nodes[q].textContent]_vars

\* C20: a row is draggable only in an editable node whose array holds
\* primitive values only (an empty array, shown inline, counted with them).
C20_ReorderScope ==
    Mounted =>
        \A qi \in AllRows :
            RowAt(qi).draggable
                => /\ nodes[qi[1]].editable
                   /\ nodes[qi[1]].input.t = "arr"
                   /\ \A i \in 1..Len(nodes[qi[1]].input.a) :
                          IsInline(nodes[qi[1]].input.a[i])

\* C21: when a drag has ended on a nested array node, every ancestor up to the
\* root holds, at the path of the node, the array the node now holds.
C21_ReorderPropagation ==
    [][(drag.on /\ lastOp'.op = "dragend" /\ drag.path # Root)
          => \A q \in Ancestors(drag.path) :
                 ValueAt(nodes'[q].input,
                         SubSeq(drag.path, Len(q) + 1, Len(drag.path)))
                     = nodes'[drag.path].input]_vars

\* the rows are in the order render() made them in: ascending index keys
Unmoved(rows) ==
    \A i, j \in 1..Len(rows) :
        (i < j /\ rows[i].kind = "row" /\ rows[j].kind = "row")
            => IndexVal(rows[i].key) < IndexVal(rows[j].key)

AllNumbers(v) == v.t = "arr" /\ \A i \in 1..Len(v.a) : v.a[i].t = "num"

\* every dragover of the drag so far was on a row of another container
OnlyCrossOvers ==
    /\ drag.on
    /\ drag.overs # <<>>
    /\ \A i \in 1..Len(drag.overs) : drag.overs[i][1] # drag.path

\* C22: a dragover on a row of another container than the one the drag
\* started in moves no row of any container; when the drag then ends, no
\* container has a row out of place, the array of the source (numbers) is
\* what it was and so is that of each container dragged over.
C22_CrossContainer ==
    [][/\ (drag.on /\ lastOp'.op = "dragover" /\ lastOp'.path # drag.path)
            => \A q \in DOMAIN nodes : nodes'[q].box.rows = nodes[q].box.rows
       /\ (OnlyCrossOvers /\ lastOp'.op = "dragend")
            => /\ \A q \in DOMAIN nodes :
                      nodes[q].input.t = "arr" => Unmoved(nodes[q].box.rows)
               /\ AllNumbers(nodes[drag.path].input)
                      => nodes'[drag.path].input = nodes[drag.path].input
               /\ \A i \in 1..Len(drag.overs) :
                      drag.overs[i][1] \in DOMAIN nodes'
                          => nodes'[drag.overs[i][1]].input
                                 = nodes[drag.overs[i][1]].input]_vars

C22_Witness ==
    /\ lastOp = Op("dragover", <<"b">>, "1")
    /\ drag.on /\ drag.path = <<"a">> /\ drag.key = "0"
    /\ drag.overs = << <<(<<"b">>), "1">> >>
    /\ nodes[<<"a">>].box.selected = Some("0")
    /\ ~nodes[<<"b">>].box.selected.has
    /\ Unmoved(nodes[<<"a">>].box.rows)
    /\ Unmoved(nodes[<<"b">>].box.rows)

\* the containers that hold a dragged-row marker
Marking == {q \in DOMAIN nodes : nodes[q].box.selected.has}

\* C23: a container holds a dragged-row marker only during a drag that started
\* on one of its rows, and then it marks that row; after a drag end no
\* container holds one and no row shows as dragged; at most one container
\* holds a marker.
C23_DragMarker ==
    /\ \A q \in Marking :
           /\ drag.on
           /\ drag.path = q
           /\ nodes[q].box.selected.val = drag.key
    /\ drag.on => drag.path \in Marking
    /\ lastOp.op = "dragend"
           => /\ Marking = {}
              /\ \A qi \in AllRows : ~RowAt(qi).dragged
    /\ Cardinality(Marking) <= 1

C23_Witness ==
    /\ lastOp = Op("dragend", Root, "0")
    /\ nodes[Root].textContent = "[2,3,1]"
    /\ Marking = {}
    /\ ~drag.on

\* the step is a click whose target is not the element of the row qi
ClickOutside(qi) ==
    /\ lastOp'.op \in {"click", "reveal", "toggleClick", "outside"}
    /\ ~(/\ lastOp'.op \in {"click", "reveal"}
         /\ lastOp'.path = qi[1]
         /\ lastOp'.key = RowAt(qi).prim.key)

\* the row at the place qi of the next state, if there is one, has no edit
\* session
Ended(qi) ==
    (qi[1] \in DOMAIN nodes' /\ qi[2] <= Len(nodes'[qi[1]].box.rows))
        => /\ ~nodes'[qi[1]].box.rows[qi[2]].prim.editing
           /\ nodes'[qi[1]].box.rows[qi[2]].prim.sessions = <<>>

\* C24: a click whose target is outside an element with an edit session, be
\* it on another editable element or on a key header, ends that session: the
\* element is no longer editable and its listeners are detached.
C24_OutsideClick ==
    [][\A qi \in AllRows :
           (InSession(RowAt(qi).prim) /\ ClickOutside(qi)) => Ended(qi)]_vars

\* C25: no primitive element has more than one set of edit listeners (input,
\* keydown, window click, each with its revert snapshot) attached.
C25_SingleSession ==
    \A qi \in AllRows : Len(RowAt(qi).prim.sessions) <= 1

\* the node n holds the value v for its leaf with this key (as its whole
\* value when the node is that leaf)
Recorded(n, key, v) ==
    IF isPrimitiveValue(n.input) THEN n.input = v ELSE GetProp(n.input, key) = v

\* the step is a live input on the element of the row qi, which is being
\* edited and was not rendered from a string
NonStringInput(qi) ==
    /\ lastOp'.op = "input"
    /\ lastOp'.path = qi[1]
    /\ lastOp'.key = RowAt(qi).prim.key
    /\ InSession(RowAt(qi).prim)
    /\ RowAt(qi).prim.type # "string"

\* C26: after a live input on an element not rendered from a string, the
\* node holds for the leaf the value the typed text parses to, or the text
\* itself as a string when it does not parse.
C26_LiveInput ==
    [][\A qi \in AllRows :
           NonStringInput(qi)
               => Recorded(nodes'[qi[1]], RowAt(qi).prim.key,
                           ParseOrText(nodes'[qi[1]].box.rows[qi[2]].prim.text))]_vars

\* the step is a live input or a revert on the element of the row qi, which
\* is being edited and was rendered from a string, in an object or array
StringStep(qi) ==
    /\ lastOp'.op \in {"input", "escape"}
    /\ lastOp'.path = qi[1]
    /\ lastOp'.key = RowAt(qi).prim.key
    /\ InSession(RowAt(qi).prim)
    /\ RowAt(qi).prim.type = "string"
    /\ ~isPrimitiveValue(nodes[qi[1]].input)

\* the element of the row qi is being edited before and after the step
StaysInSession(qi) ==
    /\ InSession(RowAt(qi).prim)
    /\ qi[1] \in DOMAIN nodes'
    /\ qi[2] <= Len(nodes'[qi[1]].box.rows)
    /\ nodes'[qi[1]].box.rows[qi[2]].prim.key = RowAt(qi).prim.key
    /\ InSession(nodes'[qi[1]].box.rows[qi[2]].prim)

Stands(S) ==
    \A q \in S \cap DOMAIN nodes' :
        /\ nodes'[q].textContent = nodes[q].textContent
        /\ nodes'[q].input = nodes[q].input

\* the step is Enter on the element of the row qi
EnterOn(qi) ==
    /\ lastOp'.op = "enter"
    /\ lastOp'.path = qi[1]
    /\ lastOp'.key = RowAt(qi).prim.key
    /\ InSession(RowAt(qi).prim)

\* C28: Enter leaves the element not editable and without listeners and
\* changes no text; and the step after it, unless it starts an edit session
\* or belongs to a drag, leaves the text and the value of the owning node and
\* of its ancestors as they are.
C28_CommitFinal ==
    [][/\ \A qi \in AllRows : EnterOn(qi) => (Ended(qi) /\ Stands(DOMAIN nodes))
       /\ (/\ lastOp.op = "enter"
           /\ lastOp'.op \notin {"click", "reveal", "dragstart", "dragover", "dragend"})
             => Stands(Ancestors(lastOp.path))]_vars

\* the paths of the nested elements right under p
KidsOf(ns, p) == {q \in DOMAIN ns : Len(q) = Len(p) + 1 /\ IsPrefix(p, q)}

\* the keys of the children of a container that are nested elements
NodeKeys(rows) == {rows[i].key : i \in {j \in 1..Len(rows) : rows[j].kind = "node"}}

\* the node after is the node before toggled: the state flipped, the depth
\* one more than it was when now expanded and 0 when now collapsed
Toggled(before, after) ==
    /\ after.isExpanded = ~before.isExpanded
    /\ after.isExpanded
           => expandAttributeValue(after) = expandAttributeValue(before) + 1
    /\ ~after.isExpanded => expandAttributeValue(after) = 0
    /\ after.input = before.input

\* the node at p shows its value as its state says: collapsed with the expand
\* control and nothing under it, or expanded with one child per entry and one
\* nested element per entry that is an object or a non-empty array
Rerendered(ns, p) ==
    /\ ns[p].box.ellipsis = ~ns[p].isExpanded
    /\ Len(ns[p].box.rows) = (IF ns[p].isExpanded THEN Len(Entries(ns[p].input)) ELSE 0)
    /\ KidsOf(ns, p) = {Append(p, k) : k \in NodeKeys(ns[p].box.rows)}
    /\ \A i \in 1..Len(ns[p].box.rows) :
           /\ ns[p].box.rows[i].key = Entries(ns[p].input)[i][1]
           /\ (ns[p].box.rows[i].kind = "node") = ~IsInline(Entries(ns[p].input)[i][2])

\* C29: toggle() flips the node between expanded and collapsed, sets its
\* depth to the previous depth plus one when it becomes expanded and to 0 when
\* it becomes collapsed, and renders the node anew.
C29_Toggle ==
    [][lastOp'.op \in {"toggle", "toggleClick"}
          => /\ Toggled(nodes[lastOp'.path], nodes'[lastOp'.path])
             /\ Rerendered(nodes', lastOp'.path)]_vars

C29_Witness ==
    /\ lastOp = Op("toggleClick", <<"a">>, "")
    /\ nodes[Root].textContent = "{\"a\":{\"b\":1}}"
    /\ nodes[<<"a">>].expand = Some("1")
    /\ nodes[<<"a">>].isExpanded
    /\ Len(nodes[<<"a">>].box.rows) = 1
    /\ nodes[<<"a">>].box.rows[1].prim.text = "1"
    /\ ops = 1

\* C30: a node is expanded exactly when its effective depth is more than 0,
\* and the depth a nested node was given is never negative.
C30_ExpandConsistency ==
    \A q \in DOMAIN nodes :
        /\ nodes[q].isExpanded <=> expandAttributeValue(nodes[q]) > 0
        /\ (q # Root /\ nodes[q].expand.has)
               => /\ ~ParseIntJS(nodes[q].expand.val).nan
                  /\ ParseIntJS(nodes[q].expand.val).n >= 0

\* the step is a toggle of the node p that the step before had collapsed by
\* a toggle
Reopened(p) ==
    /\ lastOp.op \in {"toggle", "toggleClick"}
    /\ lastOp.path = p
    /\ ~nodes[p].isExpanded
    /\ lastOp'.op \in {"toggle", "toggleClick"}
    /\ lastOp'.path = p

\* C31: a node collapsed and then expanded again by toggle is expanded with
\* depth 1, its entries are shown, and each of its nested elements is new and
\* collapsed, with depth 0 and nothing under it.
C31_Reexpand ==
    [][\A p \in DOMAIN nodes :
           Reopened(p)
               => /\ nodes'[p].isExpanded
                  /\ expandAttributeValue(nodes'[p]) = 1
                  /\ Len(nodes'[p].box.rows) = Len(Entries(nodes[p].input))
                  /\ \A q \in KidsOf(nodes', p) :
                         /\ expandAttributeValue(nodes'[q]) = 0
                         /\ Collapsed(nodes'[q])
                         /\ KidsOf(nodes', q) = {}]_vars

C31_Witness ==
    /\ lastOp = Op("toggle", Root, "")
    /\ ops = 2
    /\ nodes[Root].textContent = "{\"a\":{\"b\":{\"c\":1}}}"
    /\ nodes[Root].isExpanded
    /\ nodes[Root].expand = Some("1")
    /\ DOMAIN nodes = {Root, <<"a">>}
    /\ ~nodes[<<"a">>].isExpanded

\* C32: a toggle changes the value and the text of no node that is there
\* before and after it, the root's among them, and each nested element it
\* creates holds the value its parent holds for it.
C32_ToggleFrame ==
    [][lastOp'.op \in {"toggle", "toggleClick"}
          => /\ Root \in DOMAIN nodes'
             /\ Stands((DOMAIN nodes) \cap (DOMAIN nodes'))
             /\ \A q \in (DOMAIN nodes') \ (DOMAIN nodes) :
                    nodes'[q].input = GetProp(nodes'[Parent(q)].input, q[Len(q)])]_vars

C32_Witness ==
    /\ lastOp = Op("toggle", Root, "")
    /\ ops = 3
    /\ ~nodes[Root].isExpanded
    /\ nodes[Root].input = Obj(<<"x">>, <<Num(7)>>)
    /\ nodes[Root].textContent = "{\"x\":7}"

\* C33: a collapsed node of an object or array shows its expand control and
\* no row, its key header exactly when its key is not empty, and no element
\* is nested under it, whatever its value holds.
C33_CollapsedIsLeaf ==
    \A p \in DOMAIN nodes :
        (~isPrimitiveValue(nodes[p].input) /\ ~nodes[p].isExpanded)
            => /\ nodes[p].box.kind = "box"
               /\ nodes[p].box.ellipsis
               /\ nodes[p].box.rows = <<>>
               /\ nodes[p].box.header <=> Truthy(nodes[p].key)
               /\ \A q \in DOMAIN nodes : IsPrefix(p, q) => q = p

C33_Witness ==
    /\ <<"a">> \in DOMAIN nodes
    /\ ~nodes[<<"a">>].isExpanded
    /\ Len(Entries(nodes[<<"a">>].input)) = 2
    /\ nodes[<<"a">>].box.header
    /\ nodes[<<"a">>].box.ellipsis
    /\ nodes[<<"a">>].box.rows = <<>>

\* C34: no node is left carrying the modified marker once a handler has
\* returned: the node marked by an edit without a usable key has merged the
\* value, renewed its text and dropped the marker.
C34_MarkerCleared ==
    \A p \in DOMAIN nodes : ~nodes[p].modified.has

\* C35: in the variant, each activation of the continuation control appends
\* the next chunk of at most limit characters of the string, the control is
\* gone exactly when the whole string is shown, and while it is still there
\* no more activations have been made than the string has characters, so
\* that the reveal ends after finitely many of them.
C35_ChunkedReveal ==
    [][lastOp'.op = "reveal"
          => /\ nodes'[Root].container.text
                    = Slice(nodes[Root].input.s, 0,
                            Len(nodes[Root].container.text)
                                + truncateStringAttributeValue(nodes[Root]))
             /\ nodes'[Root].container.ellipsis
                    <=> nodes'[Root].container.text # nodes[Root].input.s
             /\ nodes'[Root].container.ellipsis
                    => nodes'[Root].container.expandedTimes - 1 < Len(nodes[Root].input.s)]_vars

\* the keys of the members of the object written in the text s, in the order
\* in which the text lists them
RECURSIVE KeysFrom(_, _)
KeysRest(s, key, r) ==
    <<key>> \o (IF Ch(s, SkipWS(s, r.i)) = "," THEN KeysFrom(s, SkipWS(s, r.i) + 1) ELSE <<>>)

KeysAfter(s, k) == KeysRest(s, k.v, ParseValue(s, SkipWS(s, k.i) + 1))

KeysFrom(s, i) ==
    IF Ch(s, SkipWS(s, i)) # "\"" THEN <<>>
    ELSE KeysAfter(s, ParseStrBody(s, SkipWS(s, i) + 1, ""))

TextKeys(s) == IF Ch(s, SkipWS(s, 1)) = "{" THEN KeysFrom(s, SkipWS(s, 1) + 1) ELSE <<>>

\* the part of the text s that writes the value under the given key of the
\* object, or at that index of the array, written in s
RECURSIVE MemberText(_, _, _)
RECURSIVE ElemText(_, _, _, _)
MemberRest(s, key, k, c, r) ==
    IF k = key THEN Sub(s, c, r.i - 1)
    ELSE IF Ch(s, SkipWS(s, r.i)) = "," THEN MemberText(s, SkipWS(s, r.i) + 1, key)
    ELSE ""

MemberValue(s, key, k, c) == MemberRest(s, key, k, c, ParseValue(s, c))

MemberAfter(s, key, k) == MemberValue(s, key, k.v, SkipWS(s, k.i) + 1)

MemberText(s, i, key) ==
    IF Ch(s, SkipWS(s, i)) # "\"" THEN ""
    ELSE MemberAfter(s, key, ParseStrBody(s, SkipWS(s, i) + 1, ""))

ElemRest(s, i, key, n, r) ==
    IF ~r.ok THEN ""
    ELSE IF ToString(n) = key THEN Sub(s, i, r.i - 1)
    ELSE IF Ch(s, SkipWS(s, r.i)) = "," THEN ElemText(s, SkipWS(s, r.i) + 1, key, n + 1)
    ELSE ""

ElemText(s, i, key, n) == ElemRest(s, i, key, n, ParseValue(s, i))

ChildText(s, key) ==
    IF Ch(s, SkipWS(s, 1)) = "{" THEN MemberText(s, SkipWS(s, 1) + 1, key)
    ELSE IF Ch(s, SkipWS(s, 1)) = "[" THEN ElemText(s, SkipWS(s, 1) + 1, key, 0)
    ELSE ""

RECURSIVE TextAt(_, _)
TextAt(s, path) == IF path = <<>> THEN s ELSE TextAt(ChildText(s, path[1]), Tail(path))

RowKeys(rows) == [i \in 1..Len(rows) |-> rows[i].key]

\* C36: the mount renders the entries of every expanded object node in the
\* order in which the input text lists its keys, whatever the keys, and an
\* edit changes the order of the keys in the text of no object node.
C36_KeyOrder ==
    [][/\ lastOp'.op = "mount"
            => \A p \in DOMAIN nodes' :
                   (nodes'[p].input.t = "obj" /\ nodes'[p].isExpanded)
                       => RowKeys(nodes'[p].box.rows)
                              = TextKeys(TextAt(nodes[Root].textContent, p))
       /\ lastOp'.op \in {"click", "input", "enter", "escape", "outside"}
            => \A p \in (DOMAIN nodes) \cap (DOMAIN nodes') :
                   (nodes[p].input.t = "obj" /\ nodes'[p].input.t = "obj")
                       => TextKeys(nodes'[p].textContent) = TextKeys(nodes[p].textContent)]_vars

====
